---- MODULE Spec2Model ----
(***************************************************************************)
(* Model of the zenith-tv M3U parser core (core/parser): the line reader   *)
(* and entry pairing of parser.rs, the year and episode detectors, the     *)
(* categorizer and the category tree.                                      *)
(*                                                                         *)
(* Text is a sequence of one-character strings.  Offsets are the 0-based   *)
(* offsets of the Rust code: Slice(s, a, b) is s[a..b].  Option values are *)
(* sequences: None is <<>> and Some(x) is <<x>>.                           *)
(***************************************************************************)
EXTENDS Integers, Sequences, FiniteSets, TLC

VARIABLES
  \* M3UParser::parse: the text, the read cursor, the place in parse, the metadata
  \* line waiting for its URL line, the items pushed so far, the returned Result
  content, cursor, pc, metadata, items, result,
  \* calls of categorize_item and detect_year: the arguments, the results, and
  \* the result of detect_year on the cleaned title
  title, url, cat, yinfo, yagain,
  \* CategoryTree::build: the items given and the tree built
  input, tree,
  \* calls of detect_episode_manual, detect_episode_regex and detect_episode on
  \* title: the three results
  emanual, eregex, einfo,
  \* calls of the tree's views: the sticky and hidden group names, the per-URL
  \* preferences, the search query, the category name looked up, the value returned
  sticky, hidden, prefs, query, category_name, view,
  \* the stage of a call sequence ("input" before the first call)
  phase

parserVars == <<content, cursor, pc, metadata, items, result>>
catVars == <<title, url, cat, yinfo, yagain>>
treeVars == <<input, tree>>
episodeVars == <<emanual, eregex, einfo>>
viewVars == <<sticky, hidden, prefs, query, category_name, view>>
vars == <<content, cursor, pc, metadata, items, result,
          title, url, cat, yinfo, yagain, input, tree,
          emanual, eregex, einfo,
          sticky, hidden, prefs, query, category_name, view, phase>>

None == <<>>
Some(x) == <<x>>
IsSome(o) == o # <<>>
Unwrap(o) == o[1]

\* ---------------------------------------------------------------- text helpers

\* s[a..b] with the 0-based, end-exclusive offsets of Rust
Slice(s, a, b) == SubSeq(s, a + 1, b)

SetMin(S) == CHOOSE x \in S : \A y \in S : x <= y
SetMax(S) == CHOOSE x \in S : \A y \in S : x >= y

\* char::is_whitespace / regex \s, on the characters of the model's alphabets
IsWhitespace(c) == c \in {" ", "\t", "\r", "\n"}

\* char::is_ascii_digit
AsciiDigits == <<"0", "1", "2", "3", "4", "5", "6", "7", "8", "9">>
IsAsciiDigit(c) == \E i \in 1..10 : AsciiDigits[i] = c
DigitValue(c) == (CHOOSE i \in 1..10 : AsciiDigits[i] = c) - 1

\* "U3" stands for one non-ASCII decimal digit (U+0663 ARABIC-INDIC DIGIT THREE):
\* the regex class \d is Unicode-aware (general category Nd), str::parse::<u32> is not.
IsRegexDigit(c) == IsAsciiDigit(c) \/ c = "U3"

UpperLetters == <<"A","B","C","D","E","F","G","H","I","J","K","L","M",
                  "N","O","P","Q","R","S","T","U","V","W","X","Y","Z">>
LowerLetters == <<"a","b","c","d","e","f","g","h","i","j","k","l","m",
                  "n","o","p","q","r","s","t","u","v","w","x","y","z">>
\* char lowercase mapping (str::to_lowercase, regex (?i)) on ASCII letters
LowerChar(c) ==
  IF \E i \in 1..26 : UpperLetters[i] = c
  THEN LowerLetters[CHOOSE i \in 1..26 : UpperLetters[i] = c]
  ELSE c
to_lowercase(s) == [i \in 1..Len(s) |-> LowerChar(s[i])]

\* str::starts_with
starts_with(s, p) == Len(s) >= Len(p) /\ SubSeq(s, 1, Len(p)) = p

\* str::find(pattern): offset of the first occurrence, -1 for None
find(s, p) ==
  LET I == {i \in 0..(Len(s) - Len(p)) : Slice(s, i, i + Len(p)) = p}
  IN IF I = {} THEN -1 ELSE SetMin(I)

\* str::rfind(pattern): offset of the last occurrence, -1 for None
rfind(s, p) ==
  LET I == {i \in 0..(Len(s) - Len(p)) : Slice(s, i, i + Len(p)) = p}
  IN IF I = {} THEN -1 ELSE SetMax(I)

\* str::contains
contains(s, p) == find(s, p) >= 0

\* str::trim: leading and trailing whitespace removed
trim(s) ==
  LET I == {i \in 1..Len(s) : ~IsWhitespace(s[i])}
  IN IF I = {} THEN <<>> ELSE SubSeq(s, SetMin(I), SetMax(I))

\* str::trim_end_matches('\r')
trim_end_matches_cr(s) ==
  LET I == {i \in 1..Len(s) : s[i] # "\r"}
  IN IF I = {} THEN <<>> ELSE SubSeq(s, 1, SetMax(I))

\* s.trim().split_whitespace().collect::<Vec<&str>>().join(" "):
\* every whitespace run becomes one space, none at either end
RECURSIVE JoinWords(_, _)
JoinWords(s, i) ==
  IF i > Len(s) THEN <<>>
  ELSE IF ~IsWhitespace(s[i]) THEN <<s[i]>> \o JoinWords(s, i + 1)
  ELSE IF i > 1 /\ ~IsWhitespace(s[i - 1]) /\ (\E j \in (i + 1)..Len(s) : ~IsWhitespace(s[j]))
       THEN <<" ">> \o JoinWords(s, i + 1)
       ELSE JoinWords(s, i + 1)
split_whitespace_join(s) == JoinWords(trim(s), 1)

\* str::parse::<u32>() of a digit group: Err on a non-ASCII digit
RECURSIVE DecimalValue(_)
DecimalValue(ds) ==
  IF ds = <<>> THEN 0 ELSE 10 * DecimalValue(SubSeq(ds, 1, Len(ds) - 1)) + DigitValue(ds[Len(ds)])
parse_u32(ds) ==
  IF ds # <<>> /\ \A i \in 1..Len(ds) : IsAsciiDigit(ds[i]) THEN Some(DecimalValue(ds)) ELSE None

\* concatenation of a sequence of texts
RECURSIVE Concat(_)
Concat(ss) == IF ss = <<>> THEN <<>> ELSE Head(ss) \o Concat(Tail(ss))

\* all sequences over S of length at most n
SeqsUpTo(S, n) == UNION {[1..k -> S] : k \in 0..n}

\* ---------------------------------------------------------------- year_detector.rs

\* A year pattern \d{4} without the century test
YearPatternAt_any_century(t, i) ==
  /\ i + 4 <= Len(t)
  /\ \A k \in 1..4 : IsRegexDigit(t[i + k])

\* YEAR_PATTERN  (19|20)\d{2}  matched at offset i
YearPatternAt(t, i) ==
  /\ i + 4 <= Len(t)
  /\ Slice(t, i, i + 2) \in {<<"1", "9">>, <<"2", "0">>}
  /\ IsRegexDigit(t[i + 3])
  /\ IsRegexDigit(t[i + 4])

\* YEAR_PATTERN.find(title): start of the leftmost match, -1 for None
YEAR_PATTERN_find(t) ==
  LET I == {i \in 0..(Len(t) - 4) : YearPatternAt(t, i)}
  IN IF I = {} THEN -1 ELSE SetMin(I)

\* A clean_end that leaves the closing delimiter in place
clean_end_keep_delimiter(t, year_end) == year_end

\* A clean_start that looks for the opening delimiter across whitespace
clean_start_past_whitespace(t, year_start) ==
  LET I == {k \in 1..year_start : ~IsWhitespace(t[k])}
  IN IF I # {} /\ t[SetMax(I)] \in {"(", "["} THEN SetMax(I) - 1 ELSE year_start

\* The span removed from the title: the match, and the adjacent delimiters
clean_start(t, year_start) ==
  IF year_start > 0 /\ t[year_start] \in {"(", "["} THEN year_start - 1 ELSE year_start

clean_end(t, year_end) ==
  IF year_end < Len(t) /\ t[year_end + 1] \in {")", "]"} THEN year_end + 1 ELSE year_end

\* detect_year(title) -> Option<YearInfo>
detect_year(t) ==
  LET year_start == YEAR_PATTERN_find(t)
  IN IF year_start < 0 THEN None
     ELSE LET year_end == year_start + 4
              year == parse_u32(Slice(t, year_start, year_end))
              cs == clean_start(t, year_start)
              ce == clean_end(t, year_end)
              cleaned == (IF cs > 0 THEN Slice(t, 0, cs) ELSE <<>>)
                           \o (IF ce < Len(t) THEN Slice(t, ce, Len(t)) ELSE <<>>)
          IN IF year = None THEN None
             ELSE Some([year |-> Unwrap(year), cleaned_title |-> split_whitespace_join(cleaned)])

\* ---------------------------------------------------------------- episode_detector.rs

\* A lookahead that reads one digit only
parsed_number_one_digit(chars, i) ==
  IF i + 1 < Len(chars) /\ IsAsciiDigit(chars[i + 2])
  THEN Some(DigitValue(chars[i + 2]))
  ELSE None

\* The 2-digit-else-1-digit lookahead after the marker at offset i (lines 64-76, 93-105)
parsed_number(chars, i) ==
  IF i + 1 < Len(chars)
  THEN LET d0 == chars[i + 2]
           two == i + 2 < Len(chars) /\ IsAsciiDigit(chars[i + 3])
       IN IF IsAsciiDigit(d0) /\ two THEN Some(DigitValue(d0) * 10 + DigitValue(chars[i + 3]))
          ELSE IF IsAsciiDigit(d0) THEN Some(DigitValue(d0))
          ELSE None
  ELSE None

\* A series_name_end that stays at the marker
series_name_end_at_marker(chars, i) == i

\* series_name_end: the offset after the last non-whitespace character before offset i
series_name_end_at(chars, i) ==
  LET I == {k \in 1..i : ~IsWhitespace(chars[k])}
  IN IF I = {} THEN 0 ELSE SetMax(I)

\* The while loop of detect_episode_manual from offset i on
RECURSIVE manual_scan(_, _, _, _)
manual_scan(chars, i, season, sne) ==
  IF i >= Len(chars) THEN [season |-> season, episode |-> None, series_name_end |-> sne]
  ELSE LET ch == chars[i + 1]
           ps == IF season = None /\ ch \in {"S", "s"} THEN parsed_number(chars, i) ELSE None
           season1 == IF ps # None THEN ps ELSE season
           sne1 == IF ps # None THEN series_name_end_at(chars, i) ELSE sne
           pe == IF season1 # None /\ ch \in {"E", "e"} THEN parsed_number(chars, i) ELSE None
       IN IF pe # None
          THEN [season |-> season1, episode |-> pe, series_name_end |-> sne1]
          ELSE manual_scan(chars, i + 1, season1, sne1)

\* detect_episode_manual(title) -> Option<Episode>
detect_episode_manual(t) ==
  LET r == manual_scan(t, 0, None, 0)
  IN IF r.season # None /\ r.episode # None
     THEN Some([series_name |-> IF r.series_name_end > 0
                                THEN trim(Slice(t, 0, r.series_name_end))
                                ELSE t,
                season |-> Unwrap(r.season),
                episode |-> Unwrap(r.episode)])
     ELSE None

\* Regex pieces.  Each of PATTERNS is matched deterministically: a whitespace run
\* \s* and a digit group \d{1,2} are greedy, and giving back a character never
\* helps because the next piece of every pattern starts with a character of
\* another class.

\* \s* from offset i: the offset after the whitespace run
skip_ws(t, i) ==
  LET I == {k \in i..(Len(t) - 1) : ~IsWhitespace(t[k + 1])}
  IN IF I = {} THEN IF i > Len(t) THEN i ELSE Len(t) ELSE SetMin(I)

\* \d{1,2} at offset i: the number of digits taken (0: no match)
digits12(t, i) ==
  IF i < Len(t) /\ IsRegexDigit(t[i + 1])
  THEN IF i + 1 < Len(t) /\ IsRegexDigit(t[i + 2]) THEN 2 ELSE 1
  ELSE 0

\* (?i)literal at offset i
literal_ci(t, i, lit) ==
  i + Len(lit) <= Len(t) /\ to_lowercase(Slice(t, i, i + Len(lit))) = lit

\* \s*(\d{1,2})\s*<word>\s*(\d{1,2}) from offset i: the two digit groups, or None
two_groups(t, i, word) ==
  LET j == skip_ws(t, i)
      n1 == digits12(t, j)
      k == skip_ws(t, j + n1)
      l == skip_ws(t, k + Len(word))
      n2 == digits12(t, l)
  IN IF n1 > 0 /\ literal_ci(t, k, word) /\ n2 > 0
     THEN Some(<<Slice(t, j, j + n1), Slice(t, l, l + n2)>>)
     ELSE None

\* PATTERNS[0]  (?i)s\s*(\d{1,2})\s*e\s*(\d{1,2})  at offset i
pattern0_at(t, i) ==
  IF literal_ci(t, i, <<"s">>) THEN two_groups(t, i + 1, <<"e">>) ELSE None

\* PATTERNS[1]  (?i)(\d{1,2})x(\d{1,2})  at offset i
pattern1_at(t, i) ==
  LET n1 == digits12(t, i)
      n2 == digits12(t, i + n1 + 1)
  IN IF n1 > 0 /\ literal_ci(t, i + n1, <<"x">>) /\ n2 > 0
     THEN Some(<<Slice(t, i, i + n1), Slice(t, i + n1 + 1, i + n1 + 1 + n2)>>)
     ELSE None

\* PATTERNS[2]  (?i)season\s*(\d{1,2})\s*episode\s*(\d{1,2})  at offset i
pattern2_at(t, i) ==
  IF literal_ci(t, i, <<"s", "e", "a", "s", "o", "n">>)
  THEN two_groups(t, i + 6, <<"e", "p", "i", "s", "o", "d", "e">>)
  ELSE None

\* PATTERNS[3]  (?i)ep(?:isode)?\.?\s*(\d{1,2})  at offset i
pattern3_at(t, i) ==
  IF literal_ci(t, i, <<"e", "p">>)
  THEN LET a == IF literal_ci(t, i + 2, <<"i", "s", "o", "d", "e">>) THEN i + 7 ELSE i + 2
           b == IF a < Len(t) /\ t[a + 1] = "." THEN a + 1 ELSE a
           c == skip_ws(t, b)
           n == digits12(t, c)
       IN IF n > 0 THEN Some(<<Slice(t, c, c + n)>>) ELSE None
  ELSE None

pattern_at(idx, t, i) ==
  CASE idx = 0 -> pattern0_at(t, i)
    [] idx = 1 -> pattern1_at(t, i)
    [] idx = 2 -> pattern2_at(t, i)
    [] idx = 3 -> pattern3_at(t, i)

\* pattern.captures(title): the leftmost match as [start, groups], or None
captures(idx, t) ==
  LET I == {i \in 0..(Len(t) - 1) : pattern_at(idx, t, i) # None}
  IN IF I = {} THEN None
     ELSE Some([start |-> SetMin(I), groups |-> Unwrap(pattern_at(idx, t, SetMin(I)))])

\* The body of the for loop of detect_episode_regex for a pattern that matched:
\* a digit group that does not parse ends the whole function with None
regex_episode(idx, t, m) ==
  LET season == IF idx = 3 THEN Some(1) ELSE parse_u32(m.groups[1])
      episode == IF idx = 3 THEN parse_u32(m.groups[1]) ELSE parse_u32(m.groups[2])
      name == trim(Slice(t, 0, m.start))
  IN IF season = None \/ episode = None THEN None
     ELSE Some([series_name |-> IF name = <<>> THEN t ELSE name,
                season |-> Unwrap(season),
                episode |-> Unwrap(episode)])

\* detect_episode_regex(title) -> Option<Episode>: the first pattern that matches decides
RECURSIVE regex_from(_, _)
regex_from(idx, t) ==
  IF idx > 3 THEN None
  ELSE IF captures(idx, t) # None THEN regex_episode(idx, t, Unwrap(captures(idx, t)))
  ELSE regex_from(idx + 1, t)
detect_episode_regex(t) == regex_from(0, t)

\* detect_episode(title) -> Option<Episode>
detect_episode(t) ==
  IF detect_episode_manual(t) # None THEN detect_episode_manual(t) ELSE detect_episode_regex(t)

\* ---------------------------------------------------------------- categorizer.rs

\* is_live_stream(url)
is_live_stream(u) ==
  LET last_slash == rfind(u, <<"/">>)
  IN IF last_slash >= 0
     THEN LET filename == Slice(u, last_slash + 1, Len(u))
              query_pos == find(filename, <<"?">>)
              filename_without_query == IF query_pos >= 0 THEN Slice(filename, 0, query_pos)
                                        ELSE filename
          IN ~contains(filename_without_query, <<".">>)
     ELSE FALSE

\* A categorize_item that runs the episode detector on the original title
categorize_item_episode_first(t, u) ==
  IF is_live_stream(u)
  THEN [category |-> "LiveStream", cleaned_title |-> t,
        year |-> None, season |-> None, episode |-> None]
  ELSE LET year_info == detect_year(t)
           working_title == IF year_info # None THEN Unwrap(year_info).cleaned_title ELSE t
           year == IF year_info # None THEN Some(Unwrap(year_info).year) ELSE None
           episode_info == detect_episode(t)
       IN IF episode_info # None
          THEN [category |-> "Series", cleaned_title |-> Unwrap(episode_info).series_name,
                year |-> year,
                season |-> Some(Unwrap(episode_info).season),
                episode |-> Some(Unwrap(episode_info).episode)]
          ELSE [category |-> "Movie", cleaned_title |-> working_title,
                year |-> year, season |-> None, episode |-> None]

\* categorize_item(title, url) -> CategorizedItem
categorize_item(t, u) ==
  IF is_live_stream(u)
  THEN [category |-> "LiveStream", cleaned_title |-> t,
        year |-> None, season |-> None, episode |-> None]
  ELSE LET year_info == detect_year(t)
           working_title == IF year_info # None THEN Unwrap(year_info).cleaned_title ELSE t
           year == IF year_info # None THEN Some(Unwrap(year_info).year) ELSE None
           episode_info == detect_episode(working_title)
       IN IF episode_info # None
          THEN [category |-> "Series", cleaned_title |-> Unwrap(episode_info).series_name,
                year |-> year,
                season |-> Some(Unwrap(episode_info).season),
                episode |-> Some(Unwrap(episode_info).episode)]
          ELSE [category |-> "Movie", cleaned_title |-> working_title,
                year |-> year, season |-> None, episode |-> None]

\* ---------------------------------------------------------------- parser.rs

EXTM3U == <<"#", "E", "X", "T", "M", "3", "U">>
EXTINF == <<"#", "E", "X", "T", "I", "N", "F">>
TVG_LOGO == <<"t", "v", "g", "-", "l", "o", "g", "o", "=", "\"">>
GROUP_TITLE == <<"g", "r", "o", "u", "p", "-", "t", "i", "t", "l", "e", "=", "\"">>
ErrEmpty == "Empty file"
ErrHeader == "Invalid M3U file: missing #EXTM3U header"

\* read_line(): the next line (Option) and the cursor after it
read_line(c, cur) ==
  IF cur >= Len(c) THEN [line |-> None, cursor |-> cur]
  ELSE LET pos == find(Slice(c, cur, Len(c)), <<"\n">>)
           end == IF pos >= 0 THEN cur + pos ELSE Len(c)
       IN [line |-> Some(trim_end_matches_cr(Slice(c, cur, end))),
           cursor |-> IF pos >= 0 THEN cur + pos + 1 ELSE Len(c)]

\* An attribute value read from the last occurrence of the name
attribute_value_last(attributes, name) ==
  LET start == rfind(attributes, name)
      value_start == start + Len(name)
      end == find(Slice(attributes, value_start, Len(attributes)), <<"\"">>)
  IN IF start >= 0 /\ end >= 0
     THEN Some(Slice(attributes, value_start, value_start + end))
     ELSE None

\* The value of an attribute: from after the first occurrence of its name and
\* opening quote up to the next double quote; None without the name or the quote
attribute_value(attributes, name) ==
  LET start == find(attributes, name)
      value_start == start + Len(name)
      end == find(Slice(attributes, value_start, Len(attributes)), <<"\"">>)
  IN IF start >= 0 /\ end >= 0
     THEN Some(Slice(attributes, value_start, value_start + end))
     ELSE None

\* parse_entry(metadata, url) -> Option<M3UItem>
parse_entry(md, u) ==
  LET comma_pos == rfind(md, <<",">>)
      t == trim(Slice(md, comma_pos + 1, Len(md)))
      attributes == Slice(md, 0, comma_pos)
      logo == attribute_value(attributes, TVG_LOGO)
      group == attribute_value(attributes, GROUP_TITLE)
  IN IF comma_pos < 0 THEN None
     ELSE Some([title |-> t,
                url |-> trim(u),
                group |-> IF group # None THEN Unwrap(group) ELSE <<>>,
                logo |-> logo,
                category |-> categorize_item(t, trim(u))])

\* A read_header that accepts any first line starting with '#'
read_header_any_hash(c, cur) ==
  LET r == read_line(c, cur)
  IN [cursor |-> r.cursor,
      res |-> IF r.line = None THEN "Err"
              ELSE IF starts_with(trim(Unwrap(r.line)), <<"#">>) THEN "Ok(true)"
              ELSE "Ok(false)"]

\* A read_header that skips blank lines before it checks the header
RECURSIVE read_header_skip_blank(_, _)
read_header_skip_blank(c, cur) ==
  LET r == read_line(c, cur)
  IN IF r.line # None /\ trim(Unwrap(r.line)) = <<>>
     THEN read_header_skip_blank(c, r.cursor)
     ELSE [cursor |-> r.cursor,
           res |-> IF r.line = None THEN "Err"
                   ELSE IF starts_with(trim(Unwrap(r.line)), EXTM3U) THEN "Ok(true)"
                   ELSE "Ok(false)"]

\* read_header(): Err("Empty file") without a first line, else Ok(whether the
\* trimmed first line starts with #EXTM3U); the cursor after the line
read_header(c, cur) ==
  LET r == read_line(c, cur)
  IN [cursor |-> r.cursor,
      res |-> IF r.line = None THEN "Err"
              ELSE IF starts_with(trim(Unwrap(r.line)), EXTM3U) THEN "Ok(true)"
              ELSE "Ok(false)"]

\* read_entry, first loop: the line ends the search for the metadata line
is_metadata_line(trimmed) == starts_with(trimmed, EXTINF)

\* A URL test that takes any non-blank line, a comment too
is_url_line_any(trimmed) == trimmed # <<>>

\* read_entry, second loop: the line is the URL line
is_url_line(trimmed) == trimmed # <<>> /\ ~starts_with(trimmed, <<"#">>)

\* parse(), the header check on a fresh cursor: Err("Empty file") is passed on by ?,
\* Ok(false) returns the missing-header error
ReadHeader ==
  /\ pc = "header"
  /\ LET h == read_header(content, cursor)
     IN /\ cursor' = h.cursor
        /\ IF h.res = "Err"
           THEN pc' = "done" /\ result' = ErrEmpty
           ELSE IF h.res = "Ok(true)"
                THEN pc' = "metadata" /\ result' = result
                ELSE pc' = "done" /\ result' = ErrHeader
  /\ UNCHANGED <<content, metadata, items>>
  /\ UNCHANGED <<catVars, treeVars, episodeVars, viewVars, phase>>

\* One turn of the first loop of read_entry(): a line starting with #EXTINF
\* becomes the metadata line, any other line is skipped; at the end of the
\* input read_entry returns None and parse returns Ok(items)
ScanMetadata ==
  /\ pc = "metadata"
  /\ LET r == read_line(content, cursor)
     IN /\ cursor' = r.cursor
        /\ IF r.line = None
           THEN pc' = "done" /\ result' = "Ok" /\ metadata' = metadata
           ELSE IF is_metadata_line(trim(Unwrap(r.line)))
                THEN pc' = "url" /\ result' = result /\ metadata' = Unwrap(r.line)
                ELSE pc' = "metadata" /\ result' = result /\ metadata' = metadata
  /\ UNCHANGED <<content, items>>
  /\ UNCHANGED <<catVars, treeVars, episodeVars, viewVars, phase>>

\* One turn of the second loop of read_entry(): a non-blank line not starting
\* with '#' is the URL line, and parse() pushes parse_entry's item if any
ScanUrl ==
  /\ pc = "url"
  /\ LET r == read_line(content, cursor)
         trimmed == trim(Unwrap(r.line))
     IN /\ cursor' = r.cursor
        /\ IF r.line = None
           THEN pc' = "done" /\ result' = "Ok" /\ items' = items
           ELSE IF is_url_line(trimmed)
                THEN /\ pc' = "metadata"
                     /\ result' = result
                     /\ items' = items \o parse_entry(metadata, Unwrap(r.line))
                ELSE pc' = "url" /\ result' = result /\ items' = items
  /\ UNCHANGED <<content, metadata>>
  /\ UNCHANGED <<catVars, treeVars, episodeVars, viewVars, phase>>

\* The lines a document is drawn from
LineHeader == EXTM3U
LineBlank == <<>>
LineInfo == <<" ">> \o EXTINF \o <<":", "g", ",", "x", ",", " ", "A", "\r">>
LineNoComma == EXTINF \o <<":", "1">>
LineUrlFile == <<"h", "/", "a", ".", "m">>
LineUrlLive == <<" ", "h", "/", "b", "\r">>
Lines == {LineHeader, LineBlank, LineInfo, LineNoComma, LineUrlFile, LineUrlLive}

MaxLines == 5

\* The lines joined by "\n", with or without a final "\n"
RECURSIVE JoinLines(_)
JoinLines(ls) ==
  IF ls = <<>> THEN <<>>
  ELSE IF Len(ls) = 1 THEN ls[1]
  ELSE ls[1] \o <<"\n">> \o JoinLines(Tail(ls))
Documents ==
  {JoinLines(ls) \o nl : ls \in SeqsUpTo(Lines, MaxLines), nl \in {<<>>, <<"\n">>}}

ParserIdle ==
  /\ content = <<>>
  /\ cursor = 0
  /\ pc = "idle"
  /\ metadata = <<>>
  /\ items = <<>>
  /\ result = "idle"

CatIdle ==
  /\ title = <<>>
  /\ url = <<>>
  /\ cat = None
  /\ yinfo = None
  /\ yagain = None

TreeIdle ==
  /\ input = <<>>
  /\ tree = None

EpisodeIdle ==
  /\ emanual = None
  /\ eregex = None
  /\ einfo = None

ViewIdle ==
  /\ sticky = {}
  /\ hidden = {}
  /\ prefs = <<>>
  /\ query = <<>>
  /\ category_name = <<>>
  /\ view = None

Init ==
  /\ content \in Documents
  /\ cursor = 0
  /\ pc = "header"
  /\ metadata = <<>>
  /\ items = <<>>
  /\ result = "running"
  /\ CatIdle
  /\ TreeIdle
  /\ EpisodeIdle
  /\ ViewIdle
  /\ phase = "idle"

Next == ReadHeader \/ ScanMetadata \/ ScanUrl

Spec == Init /\ [][Next]_vars

\* ---------------------------------------------------------------- the document, line by line

\* The lines of a text: the pieces between "\n", without a last empty piece
RECURSIVE DocLines(_)
DocLines(c) ==
  IF c = <<>> THEN <<>>
  ELSE LET p == find(c, <<"\n">>)
       IN IF p < 0 THEN <<c>>
          ELSE <<Slice(c, 0, p)>> \o DocLines(Slice(c, p + 1, Len(c)))

LineIsBlank(l) == trim(l) = <<>>
LineIsHeader(l) == starts_with(trim(l), EXTM3U)
LineIsMetadata(l) == starts_with(trim(l), EXTINF)
LineIsHash(l) == ~LineIsBlank(l) /\ trim(l)[1] = "#"
LineIsComment(l) == LineIsHash(l) /\ ~LineIsMetadata(l)
LineIsUrl(l) == ~LineIsBlank(l) /\ ~LineIsHash(l)
LineHasComma(l) == \E i \in 1..Len(l) : l[i] = ","

HeaderFirst(c) == c # <<>> /\ LineIsHeader(DocLines(c)[1])

\* The first index from i on of a line with property P(_), 0 if none
FirstFrom(ls, i, P(_)) ==
  LET I == {k \in i..Len(ls) : P(ls[k])}
  IN IF I = {} THEN 0 ELSE SetMin(I)

\* The pairs <<m, u>> of the reader from line i on: m is the first metadata line
\* from i on, u the first later line that is non-blank and does not start with
\* '#', and the search goes on after u
RECURSIVE PairsFrom(_, _)
PairsFrom(ls, i) ==
  LET m == FirstFrom(ls, i, LineIsMetadata)
      u == FirstFrom(ls, m + 1, LineIsUrl)
  IN IF m = 0 \/ u = 0 THEN <<>> ELSE <<<<m, u>>>> \o PairsFrom(ls, u + 1)

\* The items of a sequence of pairs, in order: a pair without a comma gives none
RECURSIVE ItemsOf(_, _)
ItemsOf(ls, ps) ==
  IF ps = <<>> THEN <<>>
  ELSE parse_entry(ls[ps[1][1]], ls[ps[1][2]]) \o ItemsOf(ls, Tail(ps))

\* Every #EXTINF line has a comma and is followed, after only blank and comment
\* lines, by a URL line
LineSignificant(l) == ~LineIsBlank(l) /\ ~LineIsComment(l)
WellFormed(ls) ==
  \A m \in 2..Len(ls) :
    LineIsMetadata(ls[m]) =>
      /\ LineHasComma(ls[m])
      /\ FirstFrom(ls, m + 1, LineSignificant) # 0
      /\ LineIsUrl(ls[FirstFrom(ls, m + 1, LineSignificant)])

NumMetadataLines(ls) == Cardinality({m \in 2..Len(ls) : LineIsMetadata(ls[m])})

\* C1: for a document whose first line is the header, parse returns Ok with the
\* items of the reader's pairs (each metadata line found while skipping, with the
\* first later non-blank line not starting with '#'), in document order; for a
\* well-formed document there are as many items as metadata lines.
C1_PairsInOrder ==
  (pc = "done" /\ HeaderFirst(content)) =>
    LET ls == DocLines(content)
    IN /\ result = "Ok"
       /\ items = ItemsOf(ls, PairsFrom(ls, 2))
       /\ WellFormed(ls) => Len(items) = NumMetadataLines(ls)

C1_Witness ==
  /\ pc = "done"
  /\ HeaderFirst(content)
  /\ WellFormed(DocLines(content))
  /\ Len(items) = 2
  /\ items[1].url # items[2].url
  /\ NumMetadataLines(DocLines(content)) = 2

\* C2: parse fails with the empty-input error exactly on the empty text, with the
\* missing-header error exactly when there is a first line that does not begin
\* with #EXTM3U; a failure returns no items and there is no other failure.
C2_HeaderErrors ==
  pc = "done" =>
    /\ result \in {"Ok", ErrEmpty, ErrHeader}
    /\ result = ErrEmpty <=> content = <<>>
    /\ result = ErrHeader <=> (content # <<>> /\ ~LineIsHeader(DocLines(content)[1]))
    /\ result # "Ok" => items = <<>>

C2_Witness ==
  /\ pc = "done"
  /\ result = ErrHeader
  /\ Len(DocLines(content)) >= 3
  /\ LineIsMetadata(DocLines(content)[1])
  /\ LineIsUrl(DocLines(content)[2])

\* C3 as stated: a document is accepted if and only if its first non-blank line
\* begins with #EXTM3U.
C3_FirstNonBlankLine ==
  pc = "done" =>
    LET ls == DocLines(content)
        k == FirstFrom(ls, 1, LAMBDA l : ~LineIsBlank(l))
    IN result = "Ok" <=> (k # 0 /\ LineIsHeader(ls[k]))

\* C3 amended: the header check is applied to the first line, blank or not: a
\* document is accepted if and only if it has a first line and that line begins
\* with #EXTM3U; a blank line before the header gives the missing-header error.
C3_FirstLine ==
  pc = "done" =>
    LET ls == DocLines(content)
    IN /\ result = "Ok" <=> (ls # <<>> /\ LineIsHeader(ls[1]))
       /\ (ls # <<>> /\ LineIsBlank(ls[1])) => result = ErrHeader

C3_Witness ==
  /\ pc = "done"
  /\ Len(DocLines(content)) >= 2
  /\ LineIsBlank(DocLines(content)[1])
  /\ LineIsHeader(DocLines(content)[2])
  /\ result = ErrHeader
  /\ cursor = 1

\* The complete entries of a document: a metadata line with a comma whose next
\* line that is neither blank nor a comment is a URL line
CompleteEntry(ls, m) ==
  /\ LineIsMetadata(ls[m])
  /\ LineHasComma(ls[m])
  /\ FirstFrom(ls, m + 1, LineSignificant) # 0
  /\ LineIsUrl(ls[FirstFrom(ls, m + 1, LineSignificant)])

RECURSIVE CompleteItemsFrom(_, _)
CompleteItemsFrom(ls, m) ==
  IF m > Len(ls) THEN <<>>
  ELSE (IF CompleteEntry(ls, m)
        THEN parse_entry(ls[m], ls[FirstFrom(ls, m + 1, LineSignificant)])
        ELSE <<>>) \o CompleteItemsFrom(ls, m + 1)

\* C4: after a valid header parse returns Ok, a metadata line without a comma or
\* without a URL line before the end of the input gives no item, and every
\* complete entry of the document is returned, in order.
C4_MalformedDropsOnlyItself ==
  (pc = "done" /\ HeaderFirst(content)) =>
    /\ result = "Ok"
    /\ items = CompleteItemsFrom(DocLines(content), 2)

\* ---------------------------------------------------------------- calls of categorize_item

TitleAmazingShow == <<"A", "m", "a", "z", "i", "n", "g", " ", "S", "h", "o", "w", " ",
                      "(", "2", "0", "2", "3", ")", " ", "S", "0", "2", "E", "0", "5">>
NameAmazingShow == <<"A", "m", "a", "z", "i", "n", "g", " ", "S", "h", "o", "w">>
TitleOldMovie == <<"O", "l", "d", " ", "M", "o", "v", "i", "e", " ", "[", "1", "9", "9", "9", "]">>
UrlShowMkv == <<"h", "t", "t", "p", ":", "/", "/", "x", "/", "s", "h", "o", "w", ".", "m", "k", "v">>
UrlChannel == <<"h", "t", "t", "p", ":", "/", "/", "x", "/", "c", "h", "a", "n", "n", "e", "l", "1">>

\* Titles are built from these pieces, URLs from these characters
CatPieces == {<<"a">>, <<" ">>, <<"(", "2", "0", "1", "9", ")">>, <<"2", "0", "1", "9">>,
              <<"S", "1">>, <<"E", "2">>, <<"1", "x", "2">>, <<"e", "p", "3">>}
UrlChars == {"h", "/", "?", "."}

MaxCatPieces == 4
MaxUrlLen == 4

CatTitles == {Concat(ps) : ps \in SeqsUpTo(CatPieces, MaxCatPieces)}
                \cup {TitleAmazingShow, TitleOldMovie}
\* (a URL line is never blank)
CatUrls == (SeqsUpTo(UrlChars, MaxUrlLen) \ {<<>>}) \cup {UrlShowMkv, UrlChannel}

\* Every title with the two example URLs, every URL with the two example titles
CatInputs == (CatTitles \X {UrlShowMkv, UrlChannel}) \cup ({TitleAmazingShow, TitleOldMovie} \X CatUrls)

InitCat ==
  /\ ParserIdle
  /\ TreeIdle
  /\ EpisodeIdle
  /\ ViewIdle
  /\ \E in \in CatInputs : title = in[1] /\ url = in[2]
  /\ cat = None
  /\ yinfo = None
  /\ yagain = None
  /\ phase = "input"

\* A call categorize_item(title, url)
Categorize ==
  /\ phase = "input"
  /\ cat' = Some(categorize_item(title, url))
  /\ phase' = "categorized"
  /\ UNCHANGED <<parserVars, treeVars, episodeVars, viewVars, title, url, yinfo, yagain>>

NextCat == Categorize

SpecCat == InitCat /\ [][NextCat]_vars

Categorized == phase = "categorized"
Result == Unwrap(cat)

\* The part of the URL after its last '/' (the whole URL without a '/'), cut at
\* its first '?'
RECURSIVE AfterLastSlash(_)
AfterLastSlash(u) ==
  IF \E i \in 1..Len(u) : u[i] = "/"
  THEN AfterLastSlash(Tail(u))
  ELSE u
RECURSIVE CutAtQuery(_)
CutAtQuery(f) ==
  IF f = <<>> \/ Head(f) = "?" THEN <<>> ELSE <<Head(f)>> \o CutAtQuery(Tail(f))
HasNoDot(f) == \A i \in 1..Len(f) : f[i] # "."

\* C5: the entry is LiveStream exactly when the part of the URL after its last
\* '/', cut at the first '?', has no '.'; the stored title of a LiveStream is the
\* original title and it has no year, season or episode.
C5_LiveExactlyWithoutDot ==
  Categorized =>
    /\ Result.category = "LiveStream" <=> HasNoDot(CutAtQuery(AfterLastSlash(url)))
    /\ Result.category = "LiveStream" =>
         /\ Result.cleaned_title = title
         /\ Result.year = None /\ Result.season = None /\ Result.episode = None

\* C6: for a non-live URL the year detector runs first and the episode detector
\* gets the year-cleaned title if a year was found, the original title if not;
\* a match gives Series with the detector's series name and the year, no match
\* gives Movie with the (year-cleaned) title and the year; the example title
\* gives ("Amazing Show", Series, 2023, 2, 5).
C6_YearBeforeEpisode ==
  (Categorized /\ Result.category # "LiveStream") =>
    LET y == detect_year(title)
        working == IF y # None THEN Unwrap(y).cleaned_title ELSE title
        year == IF y # None THEN Some(Unwrap(y).year) ELSE None
        e == detect_episode(working)
    IN /\ Result.year = year
       /\ e # None =>
            /\ Result.category = "Series"
            /\ Result.cleaned_title = Unwrap(e).series_name
            /\ Result.season = Some(Unwrap(e).season)
            /\ Result.episode = Some(Unwrap(e).episode)
       /\ e = None =>
            /\ Result.category = "Movie"
            /\ Result.cleaned_title = working
       /\ (title = TitleAmazingShow) =>
            Result = [category |-> "Series", cleaned_title |-> NameAmazingShow,
                      year |-> Some(2023), season |-> Some(2), episode |-> Some(5)]

C6_Witness ==
  /\ Categorized
  /\ title = TitleAmazingShow
  /\ url = UrlShowMkv
  /\ Result.category = "Series"
  /\ Result.year = Some(2023)

\* C7: season and episode are present if and only if the result is Series, a
\* LiveStream has no year, season or episode, and a year lies in 1900..2099.
C7_ResultInvariant ==
  Categorized =>
    /\ Result.season # None <=> Result.category = "Series"
    /\ Result.episode # None <=> Result.category = "Series"
    /\ Result.category = "LiveStream" =>
         (Result.year = None /\ Result.season = None /\ Result.episode = None)
    /\ Result.year # None => (Unwrap(Result.year) >= 1900 /\ Unwrap(Result.year) <= 2099)
    /\ Result.category \in {"LiveStream", "Series", "Movie"}

C7_Witness ==
  /\ Categorized
  /\ Result.category = "Series"
  /\ Result.year = Some(2019)
  /\ Result.season = Some(1)
  /\ Result.episode = Some(2)

\* ---------------------------------------------------------------- calls of detect_year

TitleRemake == <<"M", "o", "v", "i", "e", " ", "(", "2", "0", "2", "0", ")", " ", "R", "e", "m",
                 "a", "k", "e", " ", "o", "f", " ", "(", "1", "9", "8", "0", ")">>
TitleFuture == <<"F", "u", "t", "u", "r", "e", " ", "2", "1", "0", "0">>
TitleAncient == <<"A", "n", "c", "i", "e", "n", "t", " ", "1", "8", "9", "9">>

YearPieces == {<<"2", "0", "1", "9">>, <<"1", "9">>, <<"U3">>, <<"(">>, <<")">>, <<" ">>, <<"a">>}

MaxYearPieces == 5

YearTitles == {Concat(ps) : ps \in SeqsUpTo(YearPieces, MaxYearPieces)}
                 \cup {TitleRemake, TitleFuture, TitleAncient, TitleOldMovie}

InitYear ==
  /\ ParserIdle
  /\ TreeIdle
  /\ EpisodeIdle
  /\ ViewIdle
  /\ title \in YearTitles
  /\ url = <<>>
  /\ cat = None
  /\ yinfo = None
  /\ yagain = None
  /\ phase = "input"

\* A call detect_year(title)
DetectYear ==
  /\ phase = "input"
  /\ yinfo' = detect_year(title)
  /\ phase' = "detected"
  /\ UNCHANGED <<parserVars, treeVars, episodeVars, viewVars, title, url, cat, yagain>>

\* A second call, detect_year(cleaned_title), on the result of the first
DetectAgain ==
  /\ phase = "detected"
  /\ yinfo # None
  /\ yagain' = detect_year(Unwrap(yinfo).cleaned_title)
  /\ phase' = "redetected"
  /\ UNCHANGED <<parserVars, treeVars, episodeVars, viewVars, title, url, cat, yinfo>>

NextYear == DetectYear \/ DetectAgain

SpecYear == InitYear /\ [][NextYear]_vars

\* A 4-digit sequence (ASCII digits) at offset i whose value lies in 1900..2099
InRangeYearAt(t, i) ==
  /\ i + 4 <= Len(t)
  /\ \A k \in 1..4 : IsAsciiDigit(t[i + k])
  /\ DecimalValue(Slice(t, i, i + 4)) >= 1900
  /\ DecimalValue(Slice(t, i, i + 4)) <= 2099
InRangeYears(t) == {i \in 0..(Len(t) - 4) : InRangeYearAt(t, i)}

\* The in-range year at offset i has a bracket or parenthesis on both sides
WrappedYearAt(t, i) ==
  /\ InRangeYearAt(t, i)
  /\ i > 0 /\ t[i] \in {"(", "["}
  /\ i + 4 < Len(t) /\ t[i + 5] \in {")", "]"}
WrappedYears(t) == {i \in 0..(Len(t) - 4) : WrappedYearAt(t, i)}

\* The text without its whitespace
NoWhitespace(t) == SelectSeq(t, LAMBDA c : ~IsWhitespace(c))

\* C9: detect_year returns a result if and only if the title contains a 4-digit
\* sequence with a value in 1900..2099; the year is the leftmost such sequence and
\* the year-like sequences after the removed one stay in the cleaned title.
C9_YearIffInRange ==
  phase # "input" =>
    LET I == InRangeYears(title)
    IN /\ yinfo # None <=> I # {}
       /\ yinfo # None =>
            /\ Unwrap(yinfo).year = DecimalValue(Slice(title, SetMin(I), SetMin(I) + 4))
            /\ \A j \in I : j >= SetMin(I) + 5 =>
                 contains(Unwrap(yinfo).cleaned_title, Slice(title, j, j + 4))

\* 19 or 20 and two decimal digits of any script, at offset i
YearLikeAt(t, i) ==
  /\ i + 4 <= Len(t)
  /\ Slice(t, i, i + 2) \in {<<"1", "9">>, <<"2", "0">>}
  /\ \A k \in 3..4 : (IsAsciiDigit(t[i + k]) \/ t[i + k] = "U3")
NoYearLike(t) == \A i \in 0..(Len(t) - 4) : ~YearLikeAt(t, i)

\* C10 as stated: for a title whose only year is one wrapped year in 1900..2099
\* the cleaned title has neither the year nor its brackets, and detecting again
\* on the cleaned title gives nothing.
C10_WrappedYearRemoved ==
  (/\ phase # "input"
   /\ Cardinality(WrappedYears(title)) = 1
   /\ Cardinality({i \in 0..(Len(title) - 4) : YearLikeAt(title, i)}) = 1) =>
    LET i == CHOOSE k \in WrappedYears(title) : TRUE
        rest == Slice(title, 0, i - 1) \o Slice(title, i + 5, Len(title))
    IN /\ yinfo # None
       /\ NoWhitespace(Unwrap(yinfo).cleaned_title) = NoWhitespace(rest)
       /\ ~contains(Unwrap(yinfo).cleaned_title, Slice(title, i, i + 4))
       /\ phase = "redetected" => yagain = None

\* The titles of the amended C10: exactly one wrapped year, and no other digit
\* group 19dd or 20dd in the text left when the year and its brackets are removed
OnlyWrappedYear(t) ==
  /\ Cardinality(WrappedYears(t)) = 1
  /\ LET i == CHOOSE k \in WrappedYears(t) : TRUE
     IN NoYearLike(Slice(t, 0, i - 1) \o Slice(t, i + 5, Len(t)))

\* C10 amended: for a title with exactly one wrapped year in 1900..2099 in which
\* the text left after removing that year and its brackets has no digit group
\* 19dd or 20dd (elsewhere, or formed where the text before and after the year
\* meet), detect_year returns that year, the cleaned title is that text (whitespace
\* aside) and has no year, and detecting again on it gives nothing.
C10_OnlyWrappedYearRemoved ==
  (phase # "input" /\ OnlyWrappedYear(title)) =>
    LET i == CHOOSE k \in WrappedYears(title) : TRUE
        rest == Slice(title, 0, i - 1) \o Slice(title, i + 5, Len(title))
    IN /\ yinfo # None
       /\ Unwrap(yinfo).year = DecimalValue(Slice(title, i, i + 4))
       /\ NoWhitespace(Unwrap(yinfo).cleaned_title) = NoWhitespace(rest)
       /\ ~contains(Unwrap(yinfo).cleaned_title, Slice(title, i, i + 4))
       /\ \A k \in 1..Len(Unwrap(yinfo).cleaned_title) :
            Unwrap(yinfo).cleaned_title[k] \notin {"(", ")", "[", "]"}
              \/ \E m \in 1..Len(rest) : rest[m] = Unwrap(yinfo).cleaned_title[k]
       /\ phase = "redetected" => yagain = None

C10_Witness ==
  /\ phase = "redetected"
  /\ OnlyWrappedYear(title)
  /\ yagain = None
  /\ \E k \in 1..Len(title) : title[k] = "9" /\ ~WrappedYearAt(title, k - 2) /\ ~WrappedYearAt(title, k - 4)
  /\ Len(Unwrap(yinfo).cleaned_title) >= 2

\* ---------------------------------------------------------------- category_tree.rs

Uncategorized == <<"U", "n", "c", "a", "t", "e", "g", "o", "r", "i", "z", "e", "d">>
Kinds == {"Movie", "Series", "LiveStream"}

\* A group label that keeps the empty label
group_key_raw(item) == item.group

\* build, lines 86-90: the grouping key of an item
group_key(item) == IF item.group = <<>> THEN Uncategorized ELSE item.group

\* map.entry(group).or_default().push(item) on a map from names to item lists
entry_push(map, group, item) ==
  IF group \in DOMAIN map
  THEN [map EXCEPT ![group] = Append(@, item)]
  ELSE (group :> <<item>>) @@ map

\* The for loop of build: the three maps after the items from index i on
RECURSIVE group_items(_, _, _)
group_items(its, i, maps) ==
  IF i > Len(its) THEN maps
  ELSE LET item == its[i]
           group == group_key(item)
       IN group_items(its, i + 1,
            CASE item.category = "Movie" ->
                   [maps EXCEPT !.movies = entry_push(@, group, item)]
              [] item.category = "Series" ->
                   [maps EXCEPT !.series = entry_push(@, group, item)]
              [] item.category = "LiveStream" ->
                   [maps EXCEPT !.live_streams = entry_push(@, group, item)])

\* map.into_iter().map(|(name, items)| CategoryNode { name, items }).collect():
\* the nodes of the map in any order (HashMap iteration order is unspecified)
node_lists(map) ==
  LET n == Cardinality(DOMAIN map)
  IN {[i \in 1..n |-> [name |-> f[i], items |-> map[f[i]]]] :
        f \in {g \in [1..n -> DOMAIN map] : \A a, b \in 1..n : a # b => g[a] # g[b]}}

TreeTitles == {<<"x">>, <<"Y">>}
TreeGroups == {<<>>, Uncategorized, <<"A">>}
TreeItems ==
  {[title |-> t, url |-> <<"h", "/">> \o t, group |-> g, logo |-> None, category |-> k] :
     t \in TreeTitles, g \in TreeGroups, k \in Kinds}

MaxItems == 3

InitTree ==
  /\ ParserIdle
  /\ CatIdle
  /\ EpisodeIdle
  /\ ViewIdle
  /\ input \in SeqsUpTo(TreeItems, MaxItems)
  /\ tree = None
  /\ phase = "input"

\* CategoryTree::build(items)
Build ==
  /\ phase = "input"
  /\ LET maps == group_items(input, 1, [movies |-> <<>>, series |-> <<>>, live_streams |-> <<>>])
     IN \E movies \in node_lists(maps.movies),
           series \in node_lists(maps.series),
           live_streams \in node_lists(maps.live_streams) :
          tree' = Some([movies |-> movies, series |-> series, live_streams |-> live_streams])
  /\ phase' = "built"
  /\ UNCHANGED <<parserVars, catVars, episodeVars, viewVars, input>>

NextTree == Build

SpecTree == InitTree /\ [][NextTree]_vars

Collection(t, kind) ==
  CASE kind = "Movie" -> t.movies
    [] kind = "Series" -> t.series
    [] kind = "LiveStream" -> t.live_streams

NodeName(item) == IF item.group = <<>> THEN Uncategorized ELSE item.group

RECURSIVE SumLen(_)
SumLen(nodes) == IF nodes = <<>> THEN 0 ELSE Len(Head(nodes).items) + SumLen(Tail(nodes))

\* C8: build partitions its input: in each collection the node names are
\* unique and no node is empty, a node holds exactly the input items of the
\* collection's kind whose group (the empty group read as "Uncategorized") is the
\* node's name, in input order, every item has its node, and the nodes of the
\* three collections hold as many items as the input.
C8_BuildPartitions ==
  phase = "built" =>
    LET t == Unwrap(tree)
    IN /\ \A kind \in Kinds :
            LET nodes == Collection(t, kind)
            IN /\ \A a, b \in 1..Len(nodes) : a # b => nodes[a].name # nodes[b].name
               /\ \A a \in 1..Len(nodes) :
                    /\ nodes[a].items # <<>>
                    /\ nodes[a].items =
                         SelectSeq(input, LAMBDA it : it.category = kind /\ NodeName(it) = nodes[a].name)
       /\ \A i \in 1..Len(input) :
            \E a \in 1..Len(Collection(t, input[i].category)) :
              Collection(t, input[i].category)[a].name = NodeName(input[i])
       /\ SumLen(t.movies) + SumLen(t.series) + SumLen(t.live_streams) = Len(input)

C8_Witness ==
  /\ phase = "built"
  /\ Len(input) = 3
  /\ input[1].group = <<>> /\ input[1].category = "Movie"
  /\ input[2].category = "Series"
  /\ input[3].group = Uncategorized /\ input[3].category = "Movie" /\ input[3] # input[1]
  /\ Len(Unwrap(tree).movies) = 1
  /\ Unwrap(tree).movies[1].items = <<input[1], input[3]>>

\* ---------------------------------------------------------------- parse_entry on one pair

\* The metadata line of test_entry_parsing and its URL line
LineTestMovie ==
  EXTINF \o <<":", "-", "1", " ">> \o TVG_LOGO
    \o <<"h", "t", "t", "p", ":", "/", "/", "e", "/", "l", ".", "p", "n", "g", "\"", " ">>
    \o GROUP_TITLE \o <<"M", "o", "v", "i", "e", "s", "\"", ",", "T", "e", "s", "t", " ",
                        "M", "o", "v", "i", "e">>
UrlTestMovie == <<"h", "t", "t", "p", ":", "/", "/", "e", "/", "m", ".", "m", "k", "v">>

EntryPieces == {GROUP_TITLE, TVG_LOGO, <<"G">>, <<"\"">>, <<",">>, <<" ">>}
MaxEntryPieces == 5

\* Lines that read_entry hands over as metadata: they start with #EXTINF
EntryLines ==
  {EXTINF \o <<":">> \o Concat(ps) : ps \in SeqsUpTo(EntryPieces, MaxEntryPieces)}
    \cup {LineTestMovie, LineInfo}

InitEntry ==
  /\ content = <<>>
  /\ cursor = 0
  /\ pc = "idle"
  /\ metadata \in EntryLines
  /\ items = <<>>
  /\ result = "idle"
  /\ title = <<>>
  /\ url \in {UrlTestMovie, LineUrlLive}
  /\ cat = None
  /\ yinfo = None
  /\ yagain = None
  /\ TreeIdle
  /\ EpisodeIdle
  /\ ViewIdle
  /\ phase = "input"

\* The body of the while loop of parse() on one pair: parse_entry(metadata_line,
\* url_line), and the push of its item if there is one
ParseEntry ==
  /\ phase = "input"
  /\ items' = items \o parse_entry(metadata, url)
  /\ phase' = "parsed"
  /\ UNCHANGED <<content, cursor, pc, metadata, result>>
  /\ UNCHANGED <<catVars, treeVars, episodeVars, viewVars>>

NextEntry == ParseEntry

SpecEntry == InitEntry /\ [][NextEntry]_vars

\* 1-based positions
Commas(line) == {i \in 1..Len(line) : line[i] = ","}
OccursAt(s, word, i) ==
  i + Len(word) - 1 <= Len(s) /\ SubSeq(s, i, i + Len(word) - 1) = word
Occurrences(s, word) == {i \in 1..Len(s) : OccursAt(s, word, i)}
QuotesFrom(s, i) == {j \in i..Len(s) : s[j] = "\""}

\* The attribute as a reader of the text s sees it: the text between the first
\* occurrence of the name with its opening quote and the next double quote;
\* None when the name does not occur or no quote follows it
AttributeIn(s, word) ==
  IF Occurrences(s, word) = {} THEN None
  ELSE LET from == SetMin(Occurrences(s, word)) + Len(word)
       IN IF QuotesFrom(s, from) = {} THEN None
          ELSE Some(SubSeq(s, from, SetMin(QuotesFrom(s, from)) - 1))

TitleOfLine(line) == trim(SubSeq(line, SetMax(Commas(line)) + 1, Len(line)))
BeforeLastComma(line) == SubSeq(line, 1, SetMax(Commas(line)) - 1)

\* The item described for a line, its attributes looked for in the text s
EntryReads(s) ==
  /\ Len(items) = 1
  /\ items[1].title = TitleOfLine(metadata)
  /\ items[1].url = trim(url)
  /\ items[1].group = (IF AttributeIn(s, GROUP_TITLE) = None THEN <<>>
                       ELSE Unwrap(AttributeIn(s, GROUP_TITLE)))
  /\ items[1].logo = AttributeIn(s, TVG_LOGO)

CodeOrder ==
  <<" ", "0", "1", "2", "3", "4", "5", "6", "7", "8", "9",
    "A", "B", "C", "D", "E", "F", "G", "H", "I", "J", "K", "L", "M",
    "N", "O", "P", "Q", "R", "S", "T", "U", "V", "W", "X", "Y", "Z",
    "a", "b", "c", "d", "e", "f", "g", "h", "i", "j", "k", "l", "m",
    "n", "o", "p", "q", "r", "s", "t", "u", "v", "w", "x", "y", "z">>
Code(c) == CHOOSE i \in 1..Len(CodeOrder) : CodeOrder[i] = c

\* Ord for str: lexicographic by code point
RECURSIVE cmp(_, _)
cmp(a, b) ==
  IF a = <<>> THEN (IF b = <<>> THEN "Equal" ELSE "Less")
  ELSE IF b = <<>> THEN "Greater"
  ELSE IF Code(Head(a)) < Code(Head(b)) THEN "Less"
  ELSE IF Code(Head(a)) > Code(Head(b)) THEN "Greater"
  ELSE cmp(Tail(a), Tail(b))

\* slice::sort_by, a stable sort; compare[j][i] is the closure's answer for
\* (v[j], v[i]): an element goes after the elements that compare Less than it
\* and after the earlier elements that compare Equal
sort_by(v, compare) ==
  LET before(i) == {j \in 1..Len(v) :
                      \/ compare[j][i] = "Less"
                      \/ compare[j][i] = "Equal" /\ j < i}
  IN [r \in 1..Len(v) |-> v[CHOOSE i \in 1..Len(v) : Cardinality(before(i)) + 1 = r]]

\* A comparison of two nodes that compares the names as they are
category_order_case_sensitive(a, b, sticky_groups) ==
  LET a_sticky == a.name \in sticky_groups
      b_sticky == b.name \in sticky_groups
  IN IF a_sticky /\ ~b_sticky THEN "Less"
     ELSE IF ~a_sticky /\ b_sticky THEN "Greater"
     ELSE cmp(a.name, b.name)

\* The closure given to sort_by in get_movies, get_series and get_live_streams
category_order(a, b, sticky_groups) ==
  LET a_sticky == a.name \in sticky_groups
      b_sticky == b.name \in sticky_groups
  IN IF a_sticky /\ ~b_sticky THEN "Less"
     ELSE IF ~a_sticky /\ b_sticky THEN "Greater"
     ELSE cmp(to_lowercase(a.name), to_lowercase(b.name))

\* The body shared by the three node views: retain, then sort_by
filter_and_sort(categories, sticky_groups, hidden_groups) ==
  LET kept == SelectSeq(categories, LAMBDA c : c.name \notin hidden_groups)
  IN sort_by(kept, [a \in 1..Len(kept) |-> [b \in 1..Len(kept) |->
                      category_order(kept[a], kept[b], sticky_groups)]])

get_movies(t, sticky_groups, hidden_groups) ==
  filter_and_sort(t.movies, sticky_groups, hidden_groups)
get_series(t, sticky_groups, hidden_groups) ==
  filter_and_sort(t.series, sticky_groups, hidden_groups)
get_live_streams(t, sticky_groups, hidden_groups) ==
  filter_and_sort(t.live_streams, sticky_groups, hidden_groups)

NameAction == <<"A", "c", "t", "i", "o", "n">>
NameComedy == <<"C", "o", "m", "e", "d", "y">>
NameDrama == <<"D", "r", "a", "m", "a">>

ViewItem(k, g, t) ==
  [title |-> t, url |-> <<"h", "/">> \o t, group |-> g, logo |-> None, category |-> k]

\* Items of the node views: movies of three groups, series and live streams of two
NodeItems ==
  {ViewItem("Movie", g, <<"x">>) : g \in {<<"a">>, <<"B">>, <<"c">>}}
    \cup {ViewItem(k, g, <<"x">>) : k \in {"Series", "LiveStream"}, g \in {<<"a">>, <<"B">>}}
MaxNodeItems == 3
ExampleMovies ==
  <<ViewItem("Movie", NameDrama, <<"x">>), ViewItem("Movie", NameAction, <<"x">>),
    ViewItem("Movie", NameComedy, <<"x">>)>>
StickySets == {{}, {<<"a">>}, {<<"c">>}, {<<"B">>, <<"c">>}, {NameAction}}
HiddenSets == {{}, {<<"a">>}, {NameComedy}}

InitNodes ==
  /\ ParserIdle
  /\ CatIdle
  /\ EpisodeIdle
  /\ ViewIdle
  /\ input \in SeqsUpTo(NodeItems, MaxNodeItems) \cup {ExampleMovies}
  /\ tree = None
  /\ phase = "input"

\* A call t.get_movies(sticky_groups, hidden_groups) on the tree built
GetMovies ==
  /\ phase = "built"
  /\ \E st \in StickySets, hd \in HiddenSets :
       /\ sticky' = st
       /\ hidden' = hd
       /\ view' = Some(get_movies(Unwrap(tree), st, hd))
  /\ phase' = "movies"
  /\ UNCHANGED <<parserVars, catVars, episodeVars, treeVars, prefs, query, category_name>>

GetSeries ==
  /\ phase = "built"
  /\ \E st \in StickySets, hd \in HiddenSets :
       /\ sticky' = st
       /\ hidden' = hd
       /\ view' = Some(get_series(Unwrap(tree), st, hd))
  /\ phase' = "series"
  /\ UNCHANGED <<parserVars, catVars, episodeVars, treeVars, prefs, query, category_name>>

GetLiveStreams ==
  /\ phase = "built"
  /\ \E st \in StickySets, hd \in HiddenSets :
       /\ sticky' = st
       /\ hidden' = hd
       /\ view' = Some(get_live_streams(Unwrap(tree), st, hd))
  /\ phase' = "live_streams"
  /\ UNCHANGED <<parserVars, catVars, episodeVars, treeVars, prefs, query, category_name>>

NextNodes == Build \/ GetMovies \/ GetSeries \/ GetLiveStreams

SpecNodes == InitNodes /\ [][NextNodes]_vars

NodeViewed == phase \in {"movies", "series", "live_streams"}
Viewed(t) ==
  CASE phase = "movies" -> t.movies
    [] phase = "series" -> t.series
    [] phase = "live_streams" -> t.live_streams

Names(nodes) == [i \in 1..Len(nodes) |-> nodes[i].name]
LowerLeq(a, b) == cmp(to_lowercase(a), to_lowercase(b)) # "Greater"

\* C12: a node view returns exactly the nodes of its collection whose name is
\* not hidden, every sticky node before every non-sticky one, and inside each
\* of the two partitions in case-insensitive name order; sticky {Action} over
\* Action, Comedy, Drama gives [Action, Comedy, Drama], and hiding Comedy
\* removes it.
C12_NodeViews ==
  NodeViewed =>
    LET nodes == Viewed(Unwrap(tree))
        v == Unwrap(view)
        kept == {j \in 1..Len(nodes) : nodes[j].name \notin hidden}
    IN /\ Len(v) = Cardinality(kept)
       /\ \A j \in kept : \E i \in 1..Len(v) : v[i] = nodes[j]
       /\ \A i \in 1..Len(v) : \E j \in kept : v[i] = nodes[j]
       /\ \A i, j \in 1..Len(v) :
            i < j =>
              /\ ~(v[i].name \notin sticky /\ v[j].name \in sticky)
              /\ (v[i].name \in sticky <=> v[j].name \in sticky)
                   => LowerLeq(v[i].name, v[j].name)
       /\ (input = ExampleMovies /\ phase = "movies" /\ sticky = {NameAction}) =>
            Names(v) = (IF NameComedy \in hidden THEN <<NameAction, NameDrama>>
                        ELSE <<NameAction, NameComedy, NameDrama>>)

C12_Witness ==
  /\ phase = "movies"
  /\ Names(Unwrap(tree).movies) = <<<<"c">>, <<"B">>, <<"a">>>>
  /\ sticky = {<<"c">>}
  /\ hidden = {}
  /\ Names(Unwrap(view)) = <<<<"c">>, <<"a">>, <<"B">>>>

\* ---------------------------------------------------------------- CategoryNode::get_items

\* prefs.get(url).and_then(|p| p.favorite).unwrap_or(false)
is_favorite(user_prefs, item) ==
  IF item.url \in DOMAIN user_prefs
  THEN (IF user_prefs[item.url].favorite # None THEN Unwrap(user_prefs[item.url].favorite)
        ELSE FALSE)
  ELSE FALSE

\* A retain closure that hides an item whose preferences have no hidden field
is_kept_hidden_by_default(user_prefs, item) ==
  IF item.url \in DOMAIN user_prefs
  THEN ~(IF user_prefs[item.url].hidden # None THEN Unwrap(user_prefs[item.url].hidden)
         ELSE TRUE)
  ELSE TRUE

\* prefs.get(url).map(|p| !p.hidden.unwrap_or(false)).unwrap_or(true)
is_kept(user_prefs, item) ==
  IF item.url \in DOMAIN user_prefs
  THEN ~(IF user_prefs[item.url].hidden # None THEN Unwrap(user_prefs[item.url].hidden)
         ELSE FALSE)
  ELSE TRUE

\* The closure given to sort_by in get_items
item_order(a, b, user_prefs) ==
  LET a_fav == is_favorite(user_prefs, a)
      b_fav == is_favorite(user_prefs, b)
  IN IF a_fav /\ ~b_fav THEN "Less"
     ELSE IF ~a_fav /\ b_fav THEN "Greater"
     ELSE cmp(to_lowercase(a.title), to_lowercase(b.title))

get_items(node, user_prefs) ==
  LET kept == SelectSeq(node.items, LAMBDA item : is_kept(user_prefs, item))
  IN sort_by(kept, [a \in 1..Len(kept) |-> [b \in 1..Len(kept) |->
                      item_order(kept[a], kept[b], user_prefs)]])

\* Items of one node: three titles under two URLs
PrefUrls == {<<"u">>, <<"v">>}
NodeTitles == {<<"b">>, <<"A">>, <<"a">>}
ItemsOfNode ==
  {[title |-> t, url |-> u, group |-> <<"g">>, logo |-> None, category |-> "Movie"] :
     t \in NodeTitles, u \in PrefUrls}
MaxNodeSize == 3

\* UserItemPrefs values, and the maps from some of the URLs to them
PrefValues ==
  {[favorite |-> None, hidden |-> None],
   [favorite |-> Some(TRUE), hidden |-> None],
   [favorite |-> None, hidden |-> Some(TRUE)],
   [favorite |-> Some(FALSE), hidden |-> Some(FALSE)],
   [favorite |-> Some(TRUE), hidden |-> Some(TRUE)]}
PrefMaps == UNION {[D -> PrefValues] : D \in SUBSET PrefUrls}

InitItems ==
  /\ ParserIdle
  /\ CatIdle
  /\ EpisodeIdle
  /\ ViewIdle
  /\ input \in SeqsUpTo(ItemsOfNode, MaxNodeSize)
  /\ tree = None
  /\ phase = "input"

\* A call node.get_items(user_prefs) on the first node of the movies
GetItems ==
  /\ phase = "built"
  /\ Unwrap(tree).movies # <<>>
  /\ \E p \in PrefMaps :
       /\ prefs' = p
       /\ view' = Some(get_items(Unwrap(tree).movies[1], p))
  /\ phase' = "items"
  /\ UNCHANGED <<parserVars, catVars, episodeVars, treeVars, sticky, hidden, query, category_name>>

NextItems == Build \/ GetItems

SpecItems == InitItems /\ [][NextItems]_vars

Favorite(u) == u \in DOMAIN prefs /\ prefs[u].favorite = Some(TRUE)
MarkedHidden(u) == u \in DOMAIN prefs /\ prefs[u].hidden = Some(TRUE)
Count(v, x) == Cardinality({i \in 1..Len(v) : v[i] = x})

\* C13: get_items returns exactly the node's items whose URL is not marked
\* hidden (each as often as the node has it), every favorite item before every
\* non-favorite one, and inside each of the two partitions in case-insensitive
\* title order; favorite and hidden count as false when the URL has no
\* preferences or the field is missing.
C13_ItemView ==
  phase = "items" =>
    LET node == Unwrap(tree).movies[1]
        v == Unwrap(view)
    IN /\ \A x \in ItemsOfNode :
            Count(v, x) = (IF MarkedHidden(x.url) THEN 0 ELSE Count(node.items, x))
       /\ \A i, j \in 1..Len(v) :
            i < j =>
              /\ ~(~Favorite(v[i].url) /\ Favorite(v[j].url))
              /\ (Favorite(v[i].url) <=> Favorite(v[j].url))
                   => LowerLeq(v[i].title, v[j].title)

C13_Witness ==
  /\ phase = "items"
  /\ Len(input) = 3
  /\ input[1].title = <<"b">> /\ input[1].url = <<"u">>
  /\ input[2].title = <<"A">> /\ input[2].url = <<"u">>
  /\ input[3].title = <<"a">> /\ input[3].url = <<"v">>
  /\ DOMAIN prefs = {<<"v">>}
  /\ prefs[<<"v">>] = [favorite |-> Some(TRUE), hidden |-> None]
  /\ Unwrap(view) = <<input[3], input[2], input[1]>>

\* ---------------------------------------------------------------- find_category and search

\* A chain that starts with the series
chain_series_first(t) == t.series \o t.movies \o t.live_streams

\* self.movies.iter().chain(self.series.iter()).chain(self.live_streams.iter())
chain(t) == t.movies \o t.series \o t.live_streams

\* find_category(category_name): Iterator::find on the chain, cloned
find_category(t, name) ==
  LET nodes == chain(t)
      I == {i \in 1..Len(nodes) : nodes[i].name = name}
  IN IF I = {} THEN None ELSE Some(nodes[SetMin(I)])

\* The two nested for loops of search from node i of the chain on
RECURSIVE search_from(_, _, _)
search_from(nodes, i, query_lower) ==
  IF i > Len(nodes) THEN <<>>
  ELSE SelectSeq(nodes[i].items,
                 LAMBDA item : contains(to_lowercase(item.title), query_lower))
         \o search_from(nodes, i + 1, query_lower)

search(t, q) == search_from(chain(t), 1, to_lowercase(q))

\* Items to look up and search: two groups and two titles in each kind
SearchTitles == {<<"a", "B">>, <<"b">>}
SearchItems ==
  {ViewItem(k, g, t) : k \in Kinds, g \in {<<"a">>, <<"B">>}, t \in SearchTitles}
MaxSearchItems == 3
Queries == {<<>>, <<"b">>, <<"A", "b">>, <<"b", "a">>}
CategoryNames == {<<"a">>, <<"B">>, <<"b">>}

InitSearch ==
  /\ ParserIdle
  /\ CatIdle
  /\ EpisodeIdle
  /\ ViewIdle
  /\ input \in SeqsUpTo(SearchItems, MaxSearchItems)
  /\ tree = None
  /\ phase = "input"

\* A call t.find_category(category_name)
FindCategory ==
  /\ phase = "built"
  /\ \E name \in CategoryNames :
       /\ category_name' = name
       /\ view' = Some(find_category(Unwrap(tree), name))
  /\ phase' = "found"
  /\ UNCHANGED <<parserVars, catVars, episodeVars, treeVars, sticky, hidden, prefs, query>>

\* A call t.search(query)
Search ==
  /\ phase = "built"
  /\ \E q \in Queries :
       /\ query' = q
       /\ view' = Some(search(Unwrap(tree), q))
  /\ phase' = "searched"
  /\ UNCHANGED <<parserVars, catVars, episodeVars, treeVars, sticky, hidden, prefs, category_name>>

NextSearch == Build \/ FindCategory \/ Search

SpecSearch == InitSearch /\ [][NextSearch]_vars

\* The nodes in scan order, and the places (node, item) of the tree in scan order
ScanOrder(t) ==
  [i \in 1..(Len(t.movies) + Len(t.series) + Len(t.live_streams)) |->
     IF i <= Len(t.movies) THEN t.movies[i]
     ELSE IF i <= Len(t.movies) + Len(t.series) THEN t.series[i - Len(t.movies)]
     ELSE t.live_streams[i - Len(t.movies) - Len(t.series)]]
Places(nodes) == UNION {{<<n, k>> : k \in 1..Len(nodes[n].items)} : n \in 1..Len(nodes)}
PlaceBefore(p, q) == p[1] < q[1] \/ (p[1] = q[1] /\ p[2] < q[2])
TitleHas(t, q) ==
  \E a \in 0..Len(t), b \in 0..Len(t) :
    a <= b /\ to_lowercase(SubSeq(t, a + 1, b)) = to_lowercase(q)
Matches(nodes) ==
  {p \in Places(nodes) : TitleHas(nodes[p[1]].items[p[2]].title, query)}

\* C14: find_category returns the first node, in the order movies, series,
\* live streams, whose name is the given name, and nothing when no node has it;
\* search returns the items whose title contains the query without regard to
\* case, each matching place of the tree once, in the order of the collections,
\* then of the nodes, then of the items.
C14_ScanOrder ==
  LET nodes == ScanOrder(Unwrap(tree))
  IN /\ phase = "found" =>
          LET v == view[1]
              I == {i \in 1..Len(nodes) : nodes[i].name = category_name}
          IN IF I = {} THEN v = None
             ELSE \E i \in I : v = Some(nodes[i]) /\ \A j \in I : i <= j
     /\ phase = "searched" =>
          LET v == view[1]
              M == Matches(nodes)
          IN /\ Len(v) = Cardinality(M)
             /\ \A r \in 1..Len(v) :
                  \E p \in M :
                    /\ Cardinality({q \in M : PlaceBefore(q, p)}) = r - 1
                    /\ v[r] = nodes[p[1]].items[p[2]]

C14_Witness ==
  /\ phase = "searched"
  /\ Len(input) = 3
  /\ input[1].category = "LiveStream" /\ input[1].title = <<"b">>
  /\ input[2].category = "Movie" /\ input[2].title = <<"a", "B">>
  /\ input[3].category = "Series" /\ input[3].title = <<"b">>
  /\ query = <<"b">>
  /\ view[1] = <<input[2], input[3], input[1]>>

C14_WitnessFound ==
  /\ phase = "found"
  /\ category_name = <<"B">>
  /\ Len(Unwrap(tree).movies) = 2
  /\ Unwrap(tree).movies[2].name = <<"B">>
  /\ Len(Unwrap(tree).series) = 1
  /\ Unwrap(tree).series[1].name = <<"B">>
  /\ view[1] = Some(Unwrap(tree).movies[2])

\* ---------------------------------------------------------------- calls of the episode detector

TitleShowS01E05 == <<"S", "h", "o", "w", " ", "S", "0", "1", "E", "0", "5">>
TitleSeasonEpisode ==
  <<"S", "h", "o", "w", " ", "S", "e", "a", "s", "o", "n", " ", "1", " ",
    "E", "p", "i", "s", "o", "d", "e", " ", "2">>
TitleShow1x05 == <<"S", "h", "o", "w", " ", "1", "x", "0", "5">>
TitleEpisode7 == <<"S", "h", "o", "w", " ", "E", "p", "i", "s", "o", "d", "e", " ", "7">>
TitleEpDot5 == <<"N", "e", "w", "s", " ", "E", "p", ".", " ", "5">>
TitleNoEpisode == <<"M", "o", "v", "i", "e">>

EpisodePieces ==
  {<<"S", "1">>, <<"s">>, <<"E", "2">>, <<"e">>, <<"2", "3">>, <<" ">>, <<"x">>,
   <<"e", "p", ".">>, <<"U3">>}
MaxEpisodePieces == 4
EpisodeTitles ==
  {Concat(ps) : ps \in SeqsUpTo(EpisodePieces, MaxEpisodePieces)}
    \cup {TitleShowS01E05, TitleSeasonEpisode, TitleShow1x05, TitleEpisode7,
          TitleEpDot5, TitleNoEpisode}

InitEpisode ==
  /\ ParserIdle
  /\ TreeIdle
  /\ EpisodeIdle
  /\ ViewIdle
  /\ title \in EpisodeTitles
  /\ url = <<>>
  /\ cat = None
  /\ yinfo = None
  /\ yagain = None
  /\ phase = "input"

\* A call detect_episode_manual(title)
DetectManual ==
  /\ phase = "input"
  /\ emanual' = detect_episode_manual(title)
  /\ phase' = "manual"
  /\ UNCHANGED <<parserVars, catVars, treeVars, viewVars, eregex, einfo>>

\* A call detect_episode_regex(title)
DetectRegex ==
  /\ phase = "input"
  /\ eregex' = detect_episode_regex(title)
  /\ phase' = "regex"
  /\ UNCHANGED <<parserVars, catVars, treeVars, viewVars, emanual, einfo>>

\* A call detect_episode(title), with the results of the two strategies it is made of
DetectEpisode ==
  /\ phase = "input"
  /\ emanual' = detect_episode_manual(title)
  /\ eregex' = detect_episode_regex(title)
  /\ einfo' = detect_episode(title)
  /\ phase' = "detected"
  /\ UNCHANGED <<parserVars, catVars, treeVars, viewVars>>

NextEpisode == DetectManual \/ DetectRegex \/ DetectEpisode

SpecEpisode == InitEpisode /\ [][NextEpisode]_vars

\* C15: on every title on which the forward scan and the first fallback
\* pattern (S, spaces, 1-2 digits, spaces, E, spaces, 1-2 digits) both produce a
\* result, the two results are the same season, episode and series name.
C15_StrategiesAgree ==
  (phase = "detected" /\ emanual # None /\ captures(0, title) # None /\ eregex # None)
    => emanual = eregex

\* 1-based positions of a marker letter directly followed by an ASCII digit
MarkerAt(t, i, letters) ==
  i + 1 <= Len(t) /\ t[i] \in letters /\ IsAsciiDigit(t[i + 1])
SeasonMarkers(t) == {i \in 1..Len(t) : MarkerAt(t, i, {"S", "s"})}
EpisodeMarkersFrom(t, s) == {j \in s..Len(t) : MarkerAt(t, j, {"E", "e"})}
\* The number after the marker at i: two digits when two follow, else one
NumberAfter(t, i) ==
  IF i + 2 <= Len(t) /\ IsAsciiDigit(t[i + 2])
  THEN DigitValue(t[i + 1]) * 10 + DigitValue(t[i + 2])
  ELSE DigitValue(t[i + 1])

\* C16: the forward scan succeeds exactly when the title has an S/s directly
\* followed by an ASCII digit and, at or after it, an E/e directly followed by
\* an ASCII digit; the season is the number after the first such S/s, the
\* episode the number after the first such E/e from there on, each of two
\* digits when two digits follow the letter and of one otherwise.
C16_ForwardScan ==
  phase = "manual" =>
    LET S == SeasonMarkers(title)
        E == IF S = {} THEN {} ELSE EpisodeMarkersFrom(title, SetMin(S))
    IN /\ emanual # None <=> (S # {} /\ E # {})
       /\ emanual # None =>
            /\ Unwrap(emanual).season = NumberAfter(title, SetMin(S))
            /\ Unwrap(emanual).episode = NumberAfter(title, SetMin(E))

C16_Witness ==
  /\ phase = "manual"
  /\ title = <<"s", "2", "3", "S", "1", "E", "2">>
  /\ Unwrap(emanual).season = 23
  /\ Unwrap(emanual).episode = 2

C16_WitnessNoEpisode ==
  /\ phase = "manual"
  /\ title = <<"e", "2", "3", "S", "1">>
  /\ emanual = None

\* The patterns that match the title, numbered from 0 as in PATTERNS
MatchingPatterns(t) == {k \in 0..3 : captures(k, t) # None}

\* C17: detect_episode returns the forward scan's result when the scan
\* succeeds; otherwise the result of the first pattern, in the order S-E,
\* digits x digits, season-episode, ep(isode), that matches: season and episode
\* from the two digit groups of patterns 1-3, season 1 and the episode from the
\* digit group of pattern 4; and nothing when neither the scan nor a pattern matches.
C17_FallbackOrder ==
  phase = "detected" =>
    IF emanual # None THEN einfo = emanual
    ELSE IF MatchingPatterns(title) = {} THEN einfo = None
    ELSE LET k == SetMin(MatchingPatterns(title))
             groups == Unwrap(captures(k, title)).groups
         IN /\ einfo # None
            /\ Unwrap(einfo).season = (IF k = 3 THEN 1 ELSE DecimalValue(groups[1]))
            /\ Unwrap(einfo).episode = (IF k = 3 THEN DecimalValue(groups[1])
                                        ELSE DecimalValue(groups[2]))

\* The text before the 1-based position p, trimmed; the whole title when that is empty
NameBefore(t, p) ==
  IF trim(SubSeq(t, 1, p - 1)) = <<>> THEN t ELSE trim(SubSeq(t, 1, p - 1))

\* C18: when detect_episode succeeds, the series name is the trimmed text
\* before the S/s that recorded the season (forward scan) or before the start
\* of the pattern match (fallback), and the whole title when that text is
\* empty; so it is never empty.
C18_SeriesName ==
  (phase = "detected" /\ einfo # None) =>
    /\ Unwrap(einfo).series_name # <<>>
    /\ IF emanual # None
       THEN Unwrap(einfo).series_name = NameBefore(title, SetMin(SeasonMarkers(title)))
       ELSE Unwrap(einfo).series_name =
              NameBefore(title,
                         Unwrap(captures(SetMin(MatchingPatterns(title)), title)).start + 1)

C18_Witness ==
  /\ phase = "detected"
  /\ title = <<" ", "S", "1", "E", "2">>
  /\ einfo # None
  /\ Unwrap(einfo).series_name = title

C18_WitnessFallback ==
  /\ phase = "detected"
  /\ title = <<"x", "2", "3", "x", "2", "3">>
  /\ emanual = None
  /\ einfo = Some([series_name |-> <<"x">>, season |-> 23, episode |-> 23])

\* ---------------------------------------------------------------- the cleaned title of detect_year

\* 1-based positions where a year 19dd or 20dd (ASCII digits) starts
YearStarts(t) ==
  {p \in 1..(Len(t) - 3) :
     /\ <<t[p], t[p + 1]>> \in {<<"1", "9">>, <<"2", "0">>}
     /\ IsAsciiDigit(t[p + 2])
     /\ IsAsciiDigit(t[p + 3])}

\* The title without the year at p and without the delimiters that touch it
WithoutYear(t, p) ==
  LET lo == IF p > 1 /\ t[p - 1] \in {"(", "["} THEN p - 1 ELSE p
      hi == IF p + 4 <= Len(t) /\ t[p + 4] \in {")", "]"} THEN p + 4 ELSE p + 3
  IN SubSeq(t, 1, lo - 1) \o SubSeq(t, hi + 1, Len(t))

\* The text with each whitespace run between two words turned into one space
\* and the whitespace at both ends dropped
Collapsed(r) ==
  LET Word(i) == ~IsWhitespace(r[i])
      Kept(i) == \/ Word(i)
                 \/ /\ i > 1 /\ Word(i - 1)
                    /\ \E j \in (i + 1)..Len(r) : Word(j)
      places == SelectSeq([i \in 1..Len(r) |-> i], Kept)
  IN [k \in 1..Len(places) |-> IF Word(places[k]) THEN r[places[k]] ELSE " "]

\* C19: when detect_year gives a result, the cleaned title is the title
\* without the first 4-digit year, without the character directly before it
\* when that is ( or [ and without the character directly after it when that is
\* ) or ], each side on its own, with every whitespace run collapsed to one
\* space and the ends trimmed; all other characters are kept in order.
C19_CleanedTitle ==
  (phase = "detected" /\ yinfo # None) =>
    /\ YearStarts(title) # {}
    /\ Unwrap(yinfo).cleaned_title = Collapsed(WithoutYear(title, SetMin(YearStarts(title))))

C19_Witness ==
  /\ phase = "detected"
  /\ title = <<"a", " ", "(", "2", "0", "1", "9", " ">>
  /\ yinfo = Some([year |-> 2019, cleaned_title |-> <<"a">>])

====
